---- MODULE Spec2Model ----
(***************************************************************************)
(* keybot: the token ledger and round manager (src/modules/db.rs), the     *)
(* commands that call it (src/modules/commands.rs) and the startup and     *)
(* timer code of src/main.rs.                                              *)
(*                                                                         *)
(* The store is SQLite behind an sqlx pool.  Every `.await` on a statement *)
(* is one step of the task that runs it.  A statement sent to the pool is  *)
(* an autocommit statement on a connection of its own; a statement sent to *)
(* `&mut *transaction` runs inside the deferred transaction opened by      *)
(* `pool.begin()`.  SQLite's locks are modelled for both journal modes a   *)
(* database file can be in:                                                *)
(*   "delete": SHARED / RESERVED / PENDING / EXCLUSIVE file locks; a       *)
(*             commit needs every other reader gone, a reader cannot start *)
(*             while a commit is pending;                                  *)
(*   "wal":    readers keep the snapshot of their first read, one writer   *)
(*             at a time, a reader whose snapshot is no longer the newest  *)
(*             cannot become the writer (SQLITE_BUSY_SNAPSHOT).            *)
(* In both modes a transaction that already holds a read lock gets         *)
(* SQLITE_BUSY at once when it cannot become the writer; a statement that  *)
(* holds no lock yet waits (busy_timeout) and either gets the lock or      *)
(* times out with SQLITE_BUSY.                                             *)
(***************************************************************************)
EXTENDS Integers, Sequences, FiniteSets, TLC

\* ------------------------------------------------------------------ bounds
MaxTasks == 2
MaxUsers == 2
MaxTokens == 2
MaxRound == 2
MaxLines == 2
MaxRole == 2

\* db.rs:20  SqlitePoolOptions::new().max_connections(4)
max_connections == 4

\* SQL NULL (db.rs:34-37: the nullable columns of keys), Option::None
NULL == 0
\* main.rs:226-236: the spawned timer task that runs read_beta_keys_file
SyncTask == 0
\* the tasks that run command and button handlers
Tasks == 1..MaxTasks
Procs == 0..MaxTasks
Users == 1..MaxUsers
Tokens == 1..MaxTokens
Rounds == 1..MaxRound
Roles == 1..MaxRole

\* commands.rs:87: the users whose account is a bot (user.bot); such a user
\* gets a claim only through the give_key command.
Bots == {MaxUsers}

VARIABLES
  journal_mode,     \* "delete" | "wal": the journal mode of the database file
  keys,             \* table keys, committed: key_val -> row
  giveaway_rounds,  \* table giveaway_rounds, committed: round_id -> status
  users,            \* table users, committed: the usernames (id = username)
  wkeys, wrounds, wusers,  \* the tables as the one write transaction sees them
  config,           \* Data.config, the in-memory settings map
  config_tbl,       \* table config, committed: the value of key 'role_id'
  mutex,            \* holder of the tokio Mutex around Data.config, or NULL
  lock,             \* SQLite lock each task's connection holds
  stale,            \* wal: the task's read snapshot is no longer the newest
  pc, cmd, user, key, round, result,   \* each task: position and locals
  role,             \* each task: the role argument of set_key_role
  was,              \* history: the cached role_id when the task's
                    \* set_key_role got the config mutex
  file,             \* the lines of ./fresh_keys.txt
  lines,            \* the lines of the file the running sync has not read yet
  now,              \* datetime('now'): a logical clock, one tick per bind
  booted,           \* main() has run its startup round check
  returned,         \* history: how often each token was returned to a caller
  got,              \* history: tokens each user got from claim since the
                    \* active round last changed
  rolled,           \* history: the user claimed in round R, round R+1 was
                    \* opened next, and the user has not called claim since
  pre,              \* history: what held of the user when the task's claim was
                    \* called: "again" (got a token in the round that is still
                    \* active), "rollover" (rolled), "fresh" (fresh)
  fresh             \* history, kept for the users in its domain: a
                    \* set_round_db has committed and the user has not called
                    \* claim since

dbvars == <<keys, giveaway_rounds, users>>
wvars == <<wkeys, wrounds, wusers>>
locals == <<cmd, user, key, round, result>>
hist == <<returned, got>>
marks == <<rolled, pre, fresh>>
cfgvars == <<config_tbl, role, was>>
vars == <<journal_mode, keys, giveaway_rounds, users, wkeys, wrounds, wusers,
          config, config_tbl, mutex, lock, stale, pc, cmd, user, key, round,
          result, role, was, file, lines, now, booted, returned, got, rolled,
          pre, fresh>>

\* ------------------------------------------------------------------ tables

\* db.rs:30-41: a row of keys.  n is the number of rows holding this key_val
\* (UNIQUE (key_val) keeps it at most 1); n = 0 is "no such row".
NoRow == [n |-> 0, claimed |-> FALSE, user_claim |-> NULL,
          claimed_at |-> NULL, claim_round |-> NULL]

\* db.rs:33-37: the column defaults of a freshly inserted row.
NewRow == [n |-> 1, claimed |-> FALSE, user_claim |-> NULL,
           claimed_at |-> NULL, claim_round |-> NULL]

RECURSIVE SumN(_, _)
SumN(K, S) ==
  IF S = {} THEN 0
  ELSE LET t == CHOOSE x \in S : TRUE IN K[t].n + SumN(K, S \ {t})

\* db.rs:85 / db.rs:107 / db.rs:146: WHERE claimed = FALSE
Unclaimed(K) == {t \in Tokens : K[t].n > 0 /\ ~K[t].claimed}

\* remaining_unclaimed without the WHERE clause.
remaining_rows(K) == SumN(K, Tokens)

\* db.rs:80-91: SELECT COUNT(*) FROM keys WHERE claimed = FALSE
remaining_unclaimed(K) == SumN(K, Unclaimed(K))

\* db.rs:115,174: (select id from users where username = ?)
UserId(U, u) == IF u \in U THEN u ELSE NULL

ActiveRounds(R) == {r \in Rounds : R[r] = "active"}

RECURSIVE MinOf(_)
MinOf(S) ==
  LET x == CHOOSE y \in S : TRUE
  IN IF S = {x} THEN x
     ELSE LET m == MinOf(S \ {x}) IN IF x < m THEN x ELSE m

\* db.rs:115,174: (select round_id from giveaway_rounds where status = 'active')
\* a scalar subquery: its first row (lowest rowid), or NULL without a row.
ActiveRoundId(R) == IF ActiveRounds(R) = {} THEN NULL ELSE MinOf(ActiveRounds(R))

\* HasActiveClaim whose subquery compares k.user_claim with the username
\* instead of users.id: no row matches.
HasActiveClaimByName(K, R, U, u) == FALSE

\* db.rs:147-155: the NOT EXISTS subquery: a claimed key of this user whose
\* claim_round joins a round with status 'active'.
HasActiveClaim(K, R, U, u) ==
  \E t \in Tokens :
     /\ K[t].n > 0
     /\ K[t].claimed
     /\ K[t].user_claim # NULL
     /\ K[t].user_claim = UserId(U, u)
     /\ K[t].claim_round # NULL
     /\ R[K[t].claim_round] = "active"

\* ClaimCandidates whose NOT EXISTS clause leaves out the join with the
\* active round.
ClaimCandidatesAnyRound(K, R, U, u) ==
  IF \E t \in Tokens : K[t].n > 0 /\ K[t].claimed /\ K[t].user_claim = UserId(U, u)
  THEN {} ELSE Unclaimed(K)

\* ClaimCandidates without the NOT EXISTS clause.
ClaimCandidatesNoExclusion(K, R, U, u) == Unclaimed(K)

\* db.rs:142-160: the rows the claim SELECT may return (LIMIT 1 takes one).
ClaimCandidates(K, R, U, u) ==
  IF HasActiveClaim(K, R, U, u) THEN {} ELSE Unclaimed(K)

\* UncheckedCandidates without the WHERE clause.
UncheckedCandidatesAny(K) == {t \in Tokens : K[t].n > 0}

\* db.rs:105-111: SELECT key_val FROM keys WHERE claimed = FALSE LIMIT 1
UncheckedCandidates(K) == Unclaimed(K)

\* BindKey whose UPDATE leaves out claim_round.
BindKeyNoRound(K, R, U, t, u, at) ==
  IF K[t].n = 0 THEN K
  ELSE [K EXCEPT ![t] = [n |-> K[t].n, claimed |-> TRUE,
                         user_claim |-> UserId(U, u), claimed_at |-> at,
                         claim_round |-> K[t].claim_round]]

\* BindKey whose UPDATE leaves out claimed = TRUE.
BindKeyUnmarked(K, R, U, t, u, at) ==
  IF K[t].n = 0 THEN K
  ELSE [K EXCEPT ![t] = [n |-> K[t].n, claimed |-> FALSE,
                         user_claim |-> UserId(U, u), claimed_at |-> at,
                         claim_round |-> ActiveRoundId(R)]]

\* db.rs:113-121, db.rs:172-180: UPDATE keys SET claimed = TRUE, user_claim = ..,
\* claimed_at = datetime('now'), claim_round = .. WHERE key_val = ?
BindKey(K, R, U, t, u, at) ==
  IF K[t].n = 0 THEN K
  ELSE [K EXCEPT ![t] = [n |-> K[t].n, claimed |-> TRUE,
                         user_claim |-> UserId(U, u), claimed_at |-> at,
                         claim_round |-> ActiveRoundId(R)]]

\* InsertKey as INSERT OR REPLACE: the row is written anew.
InsertKeyReplace(K, t) == [K EXCEPT ![t] = NewRow]

\* InsertKey without OR IGNORE on a table without UNIQUE (key_val).
InsertKeyAgain(K, t) ==
  [K EXCEPT ![t] = IF K[t].n > 0 THEN [K[t] EXCEPT !.n = @ + 1] ELSE NewRow]

\* db.rs:272: INSERT OR IGNORE INTO keys (key_val) VALUES (?)
InsertKey(K, t) == IF K[t].n > 0 THEN K ELSE [K EXCEPT ![t] = NewRow]

\* db.rs:99,133: INSERT OR IGNORE INTO users (username) VALUES (?)
InsertUser(U, u) == U \cup {u}

\* CompleteActive whose UPDATE matches no row.
CompleteNone(R) == R

\* db.rs:209: UPDATE giveaway_rounds SET status = 'completed' WHERE status = 'active'
CompleteActive(R) == [r \in Rounds |-> IF R[r] = "active" THEN "completed" ELSE R[r]]

\* ReplaceRound as INSERT OR IGNORE: an existing row keeps its status.
ReplaceRoundIgnore(R, n) == IF R[n] = "none" THEN [R EXCEPT ![n] = "active"] ELSE R

\* db.rs:217: INSERT OR REPLACE INTO giveaway_rounds (round_id, status) VALUES (?, 'active')
ReplaceRound(R, n) == [R EXCEPT ![n] = "active"]

\* ------------------------------------------------------------------- locks

Wal == journal_mode = "wal"

\* A connection can take a read lock (delete: SHARED is refused while another
\* connection holds PENDING or EXCLUSIVE; wal: always).
CanRead(p) == Wal \/ \A q \in Procs \ {p} : lock[q] # "pending"

\* CanWrite without the check of the reader's snapshot.
CanWriteStale(p) ==
  \A q \in Procs \ {p} : lock[q] \notin {"reserved", "pending"}

\* A connection can become the writer (delete: RESERVED; wal: the WAL write
\* lock): nobody else is, and its own snapshot, if it has one, is the newest.
CanWrite(p) ==
  /\ \A q \in Procs \ {p} : lock[q] \notin {"reserved", "pending"}
  /\ ~stale[p]

\* The writer can commit (delete: EXCLUSIVE needs every other lock released;
\* wal: appending to the log needs nothing more).
CanCommit(p) == Wal \/ \A q \in Procs \ {p} : lock[q] = "none"

\* Tasks whose transaction holds a pool connection.
TxPcs == {"c_update", "c_count", "c_commit", "c_wait",
          "g_select", "g_update", "g_commit", "g_wait",
          "r_insert", "r_commit", "r_wait", "u_wait", "s_wait", "k_wait"}
InUse == Cardinality({q \in Procs : pc[q] \in TxPcs})
\* db.rs:19-22: pool.acquire() gets a connection while fewer than 4 are out.
PoolFree == InUse < max_connections

\* COMMIT by writer p: the write view becomes the committed tables; in wal
\* mode every other open snapshot is now old.
Commit(p) ==
  /\ keys' = wkeys
  /\ giveaway_rounds' = wrounds
  /\ users' = wusers
  /\ UNCHANGED wvars
  /\ lock' = [lock EXCEPT ![p] = "none"]
  /\ stale' = [q \in Procs |-> q # p /\ (stale[q] \/ lock[q] = "shared")]

\* Rollback in a store that keeps what the dropped transaction had written.
RollbackApplied(p) ==
  /\ IF lock[p] \in {"reserved", "pending"}
     THEN keys' = wkeys /\ giveaway_rounds' = wrounds /\ users' = wusers
     ELSE UNCHANGED dbvars
  /\ UNCHANGED wvars
  /\ lock' = [lock EXCEPT ![p] = "none"]
  /\ stale' = [stale EXCEPT ![p] = FALSE]

\* ROLLBACK (sqlx rolls back a Transaction that is dropped uncommitted).
Rollback(p) ==
  /\ IF lock[p] \in {"reserved", "pending"}
     THEN wkeys' = keys /\ wrounds' = giveaway_rounds /\ wusers' = users
     ELSE UNCHANGED wvars
  /\ UNCHANGED dbvars
  /\ lock' = [lock EXCEPT ![p] = "none"]
  /\ stale' = [stale EXCEPT ![p] = FALSE]

\* -------------------------------------------------------------------- init

\* The contents ./fresh_keys.txt can have: up to MaxLines lines, each a key;
\* the keys are numbered in the order the file first names them.
Files ==
  {f \in UNION {[1..n -> Tokens] : n \in 0..MaxLines} :
     \A i \in 1..Len(f) : \A t \in 1..(f[i] - 1) : \E j \in 1..(i - 1) : f[j] = t}

\* No task runs, nothing is locked, nothing has been handed out.
AtRest ==
  /\ wkeys = keys
  /\ wrounds = giveaway_rounds
  /\ wusers = users
  /\ mutex = NULL
  /\ lock = [p \in Procs |-> "none"]
  /\ stale = [p \in Procs |-> FALSE]
  /\ pc = [p \in Procs |-> "idle"]
  /\ cmd = [p \in Procs |-> "none"]
  /\ user = [p \in Procs |-> NULL]
  /\ key = [p \in Procs |-> NULL]
  /\ round = [p \in Procs |-> NULL]
  /\ result = [p \in Procs |-> "none"]
  /\ role = [p \in Procs |-> NULL]
  /\ was = [p \in Procs |-> NULL]
  /\ lines = <<>>
  /\ now = 1
  /\ returned = [t \in Tokens |-> 0]
  /\ got = [u \in Users |-> 0]
  /\ rolled = [u \in Users |-> FALSE]
  /\ pre = [p \in Procs |-> {}]

\* The history `fresh` at the start, kept for the users in W.
Watched(W) == [u \in W |-> FALSE]

\* main.rs:94-106: a database file just created, its tables empty.
Init ==
  /\ journal_mode \in {"delete", "wal"}
  /\ file \in Files
  /\ keys = [t \in Tokens |-> NoRow]
  /\ giveaway_rounds = [r \in Rounds |-> "none"]
  /\ users = {}
  /\ config = [claim_round |-> NULL, role_id |-> NULL]
  /\ config_tbl = NULL
  /\ booted = FALSE
  /\ AtRest
  /\ fresh = Watched({})

\* ----------------------------------------------------------- task plumbing

sysvars == <<journal_mode, config, mutex, file, lines, booted, cfgvars>>

Goto(p, label) == pc' = [pc EXCEPT ![p] = label]

\* A command starts on an idle task with its argument.
Call(p, c, u) ==
  /\ booted
  /\ pc[p] = "idle" \/ (c = "claim" /\ pc[p] = "p_collect")
  /\ cmd' = [cmd EXCEPT ![p] = c]
  /\ user' = [user EXCEPT ![p] = u]
  /\ IF c = "claim"
     THEN /\ pre' = [pre EXCEPT ![p] = {m \in {"again", "rollover", "fresh"} :
                                         \/ m = "again" /\ got[u] > 0
                                         \/ m = "rollover" /\ rolled[u]
                                         \/ m = "fresh" /\ u \in DOMAIN fresh
                                                         /\ fresh[u]}]
          /\ rolled' = [rolled EXCEPT ![u] = FALSE]
          /\ fresh' = [x \in DOMAIN fresh |-> x # u /\ fresh[x]]
     ELSE UNCHANGED marks

\* The call returns `res` (and the key k when it is Ok(key_val)).
Return(p, res, k) ==
  /\ pc' = [pc EXCEPT ![p] = "done"]
  /\ result' = [result EXCEPT ![p] = res]
  /\ key' = [key EXCEPT ![p] = k]
  /\ round' = [round EXCEPT ![p] = NULL]

\* The command has answered; the task is free for the next interaction.
\* commands.rs:286-288: a claim made for a click on the button of the task's
\* create_key_post (which holds the config mutex) is acknowledged, and the
\* loop waits for the next click.
Finish(p) ==
  /\ pc[p] = "done"
  /\ Goto(p, IF mutex = p THEN "p_collect" ELSE "idle")
  /\ cmd' = [cmd EXCEPT ![p] = IF mutex = p THEN "post" ELSE "none"]
  /\ user' = [user EXCEPT ![p] = NULL]
  /\ key' = [key EXCEPT ![p] = NULL]
  /\ result' = [result EXCEPT ![p] = "none"]
  /\ pre' = [pre EXCEPT ![p] = {}]
  /\ UNCHANGED <<sysvars, dbvars, wvars, lock, stale, round, now, hist, rolled, fresh>>

\* An autocommit INSERT of task p leaves the tables K, R, U committed.  An
\* INSERT into an AUTOINCREMENT table writes sqlite_sequence even when OR
\* IGNORE drops the row, so it always is a write that commits.
AutoCommit(p, K, R, U) ==
  /\ keys' = K /\ giveaway_rounds' = R /\ users' = U
  /\ wkeys' = K /\ wrounds' = R /\ wusers' = U
  /\ stale' = [q \in Procs |-> q # p /\ (stale[q] \/ lock[q] = "shared")]

\* The active round changed: every user's count of this round's claims restarts.
GotAfter(R) ==
  IF ActiveRounds(R) = ActiveRounds(giveaway_rounds) THEN got
  ELSE [u \in Users |-> 0]

\* The active round changed from R to R+1: the users who claimed in R.
RolledAfter(R) ==
  IF ActiveRounds(R) = ActiveRounds(giveaway_rounds) THEN rolled
  ELSE [u \in Users |->
          got[u] > 0 /\ ActiveRoundId(R) = ActiveRoundId(giveaway_rounds) + 1]

\* The active round changed: what held at the call of a running claim is void.
PreAfter(R) ==
  IF ActiveRounds(R) = ActiveRounds(giveaway_rounds) THEN pre
  ELSE [q \in Procs |-> {}]

\* What a committed bind leaves in the history.
Bound(p) ==
  /\ now' = now + 1
  /\ returned' = [returned EXCEPT ![key[p]] = @ + 1]
  /\ got' = IF cmd[p] = "claim" THEN [got EXCEPT ![user[p]] = @ + 1] ELSE got
  /\ rolled' = IF cmd[p] = "claim" THEN [rolled EXCEPT ![user[p]] = FALSE] ELSE rolled

\* ------------------------------------------------------------------ main()

\* main.rs:194-196: if let Ok(value) = get_config_val(&pool, "role_id") the
\* cache gets the stored role_id (db.rs:187-198: fetch_one, Err without a row).
\* main.rs:198-203: if let Ok(None) = get_round(&pool) { set_round_db(&pool, 1, ..) }
\* (db.rs:233-246 get_round, db.rs:200-231 set_round_db).  No other task runs yet.
Boot ==
  /\ ~booted
  /\ booted' = TRUE
  /\ IF ActiveRounds(giveaway_rounds) = {}
     THEN /\ AutoCommit(SyncTask, keys, ReplaceRound(CompleteActive(giveaway_rounds), 1), users)
          /\ config' = [claim_round |-> 1, role_id |-> config_tbl]
          /\ fresh' = [u \in DOMAIN fresh |-> TRUE]
     ELSE /\ config' = [config EXCEPT !.role_id = config_tbl]
          /\ UNCHANGED <<dbvars, wvars, stale, fresh>>
  /\ UNCHANGED <<journal_mode, mutex, lock, pc, locals, file, lines, now, hist,
                 rolled, pre, cfgvars>>

\* main.rs:194-203: get_round(&pool) returns Err (the store cannot be read):
\* `if let Ok(None)` does not match, no round is opened, and main goes on to
\* start the framework.
BootRoundErr ==
  /\ ~booted
  /\ booted' = TRUE
  /\ config' = [config EXCEPT !.role_id = config_tbl]
  /\ UNCHANGED <<dbvars, wvars, stale>>
  /\ UNCHANGED <<journal_mode, mutex, lock, pc, locals, file, lines, now, hist, marks,
                 cfgvars>>

\* --------------------------------------------------- claim_key_with_user

\* commands.rs:85 (give_key) and commands.rs:254 (a click on the giveaway
\* button) call claim_key_with_user(user.name).
\* db.rs:131-138: INSERT OR IGNORE INTO users, on the pool (autocommit).
ClaimUser(p, u) ==
  /\ Call(p, "claim", u)
  /\ PoolFree /\ CanWrite(p)
  /\ IF CanCommit(p)
     THEN /\ AutoCommit(p, keys, giveaway_rounds, InsertUser(users, u))
          /\ Goto(p, "c_select")
          /\ UNCHANGED lock
     ELSE /\ wusers' = InsertUser(users, u)
          /\ lock' = [lock EXCEPT ![p] = "pending"]
          /\ Goto(p, "u_wait")
          /\ UNCHANGED <<dbvars, wkeys, wrounds, stale>>
  /\ UNCHANGED <<sysvars, key, round, result, now, hist>>

\* db.rs:131-138: the INSERT waited for its lock (or a connection) until the
\* busy timeout: Err, and `?` returns it.
ClaimUserBusy(p, u) ==
  /\ Call(p, "claim", u)
  /\ ~(PoolFree /\ CanWrite(p))
  /\ Return(p, "storage", NULL)
  /\ UNCHANGED <<sysvars, dbvars, wvars, lock, stale, now, hist>>

\* db.rs:131-138: the INSERT holds PENDING and waits for the readers to leave.
ClaimUserWait(p) ==
  /\ pc[p] = "u_wait"
  /\ IF CanCommit(p)
     THEN /\ Commit(p)
          /\ Goto(p, "c_select")
          /\ UNCHANGED <<key, round, result>>
     ELSE /\ Rollback(p)
          /\ Return(p, "storage", NULL)
  /\ UNCHANGED <<sysvars, cmd, user, now, hist, marks>>

\* db.rs:140-160: pool.begin(), then the SELECT .. LIMIT 1 with fetch_optional.
ClaimSelect(p) ==
  /\ pc[p] = "c_select"
  /\ PoolFree /\ CanRead(p)
  /\ lock' = [lock EXCEPT ![p] = "shared"]
  /\ LET C == ClaimCandidates(keys, giveaway_rounds, users, user[p])
     IN IF C = {}
        THEN /\ Goto(p, "c_count")
             /\ UNCHANGED key
        ELSE /\ \E t \in C : key' = [key EXCEPT ![p] = t]
             /\ Goto(p, "c_update")
  /\ UNCHANGED <<sysvars, dbvars, wvars, stale, cmd, user, round, result, now, hist, marks>>

\* db.rs:140-160: begin or the SELECT timed out (no connection, or a commit
\* is pending): Err.
ClaimSelectBusy(p) ==
  /\ pc[p] = "c_select"
  /\ ~(PoolFree /\ CanRead(p))
  /\ Return(p, "storage", NULL)
  /\ UNCHANGED <<sysvars, dbvars, wvars, lock, stale, cmd, user, now, hist, marks>>

\* db.rs:162-170: no row: remaining_unclaimed(pool) on another connection
\* decides between the two messages; the transaction is dropped.
ClaimCount(p) ==
  /\ pc[p] = "c_count"
  /\ PoolFree /\ CanRead(p)
  /\ Return(p, IF remaining_unclaimed(keys) > 0 THEN "AlreadyClaimed" ELSE "NoKeys", NULL)
  /\ Rollback(p)
  /\ UNCHANGED <<sysvars, cmd, user, now, hist, marks>>

\* db.rs:163: remaining_unclaimed(pool).await? timed out: Err.
ClaimCountBusy(p) ==
  /\ pc[p] = "c_count"
  /\ ~(PoolFree /\ CanRead(p))
  /\ Return(p, "storage", NULL)
  /\ Rollback(p)
  /\ UNCHANGED <<sysvars, cmd, user, now, hist, marks>>

\* db.rs:172-180: the UPDATE that binds the key, inside the transaction.  The
\* transaction holds a read lock: it becomes the writer or fails at once.
ClaimUpdate(p) ==
  /\ pc[p] = "c_update"
  /\ IF CanWrite(p)
     THEN /\ lock' = [lock EXCEPT ![p] = "reserved"]
          /\ wkeys' = BindKey(keys, giveaway_rounds, users, key[p], user[p], now)
          /\ Goto(p, "c_commit")
          /\ UNCHANGED <<dbvars, wrounds, wusers, stale, key, round, result>>
     ELSE /\ Rollback(p)
          /\ Return(p, "storage", NULL)
  /\ UNCHANGED <<sysvars, cmd, user, now, hist, marks>>

\* db.rs:182-184: transaction.commit(), then Ok(key.key_val).
ClaimCommit(p) ==
  /\ pc[p] = "c_commit"
  /\ IF CanCommit(p)
     THEN /\ Commit(p)
          /\ Return(p, "ok", key[p])
          /\ Bound(p)
     ELSE /\ lock' = [lock EXCEPT ![p] = "pending"]
          /\ Goto(p, "c_wait")
          /\ UNCHANGED <<dbvars, wvars, stale, key, round, result, now, hist, rolled>>
  /\ UNCHANGED <<sysvars, cmd, user, pre, fresh>>

\* db.rs:182: the COMMIT waits for the other readers; it goes through once
\* they are gone, or times out with SQLITE_BUSY and `?` returns the error.
ClaimWait(p) ==
  /\ pc[p] = "c_wait"
  /\ IF CanCommit(p)
     THEN /\ Commit(p)
          /\ Return(p, "ok", key[p])
          /\ Bound(p)
     ELSE /\ Rollback(p)
          /\ Return(p, "storage", NULL)
          /\ UNCHANGED <<now, hist, rolled>>
  /\ UNCHANGED <<sysvars, cmd, user, pre, fresh>>

\* ---------------------------------------------------- give_key_unchecked

\* commands.rs:133: the give_key_unchecked command calls db::give_key_unchecked.
\* db.rs:94-104: pool.begin(), then INSERT OR IGNORE INTO users inside the
\* transaction: its first statement writes, so it waits for the write lock.
UncheckedUser(p, u) ==
  /\ Call(p, "unchecked", u)
  /\ PoolFree /\ CanWrite(p)
  /\ lock' = [lock EXCEPT ![p] = "reserved"]
  /\ wusers' = InsertUser(users, u)
  /\ Goto(p, "g_select")
  /\ UNCHANGED <<sysvars, dbvars, wkeys, wrounds, stale, key, round, result, now, hist>>

\* db.rs:94-104: begin or the INSERT timed out: Err.
UncheckedUserBusy(p, u) ==
  /\ Call(p, "unchecked", u)
  /\ ~(PoolFree /\ CanWrite(p))
  /\ Return(p, "storage", NULL)
  /\ UNCHANGED <<sysvars, dbvars, wvars, lock, stale, now, hist>>

\* db.rs:105-111: SELECT .. WHERE claimed = FALSE LIMIT 1 with fetch_one: no
\* row is Err(RowNotFound), and the dropped transaction rolls back.
UncheckedSelect(p) ==
  /\ pc[p] = "g_select"
  /\ LET C == UncheckedCandidates(wkeys)
     IN IF C = {}
        THEN /\ Rollback(p)
             /\ Return(p, "RowNotFound", NULL)
        ELSE /\ \E t \in C : key' = [key EXCEPT ![p] = t]
             /\ Goto(p, "g_update")
             /\ UNCHANGED <<dbvars, wvars, lock, stale, round, result>>
  /\ UNCHANGED <<sysvars, cmd, user, now, hist, marks>>

\* db.rs:113-121: the UPDATE that binds the key.
UncheckedUpdate(p) ==
  /\ pc[p] = "g_update"
  /\ wkeys' = BindKey(wkeys, wrounds, wusers, key[p], user[p], now)
  /\ Goto(p, "g_commit")
  /\ UNCHANGED <<sysvars, dbvars, wrounds, wusers, lock, stale, locals, now, hist, marks>>

\* db.rs:123-125: transaction.commit(), then Ok(key.key_val).
UncheckedCommit(p) ==
  /\ pc[p] = "g_commit"
  /\ IF CanCommit(p)
     THEN /\ Commit(p)
          /\ Return(p, "ok", key[p])
          /\ Bound(p)
     ELSE /\ lock' = [lock EXCEPT ![p] = "pending"]
          /\ Goto(p, "g_wait")
          /\ UNCHANGED <<dbvars, wvars, stale, key, round, result, now, hist, rolled>>
  /\ UNCHANGED <<sysvars, cmd, user, pre, fresh>>

\* db.rs:123: the COMMIT waits for the readers, or times out: Err.
UncheckedWait(p) ==
  /\ pc[p] = "g_wait"
  /\ IF CanCommit(p)
     THEN /\ Commit(p)
          /\ Return(p, "ok", key[p])
          /\ Bound(p)
     ELSE /\ Rollback(p)
          /\ Return(p, "storage", NULL)
          /\ UNCHANGED <<now, hist, rolled>>
  /\ UNCHANGED <<sysvars, cmd, user, pre, fresh>>

\* ------------------------------------------------- set_round, set_round_db

envvars == <<journal_mode, file, lines, booted, cfgvars>>

\* commands.rs:159-160: the set_round command with its round argument.
CallSetRound(p, n) ==
  /\ booted /\ pc[p] = "idle"
  /\ Goto(p, "r_lock")
  /\ cmd' = [cmd EXCEPT ![p] = "set_round"]
  /\ round' = [round EXCEPT ![p] = n]
  /\ UNCHANGED <<sysvars, dbvars, wvars, lock, stale, user, key, result, now, hist, marks>>

\* commands.rs:161: ctx.data().config.lock().await
SetRoundLock(p) ==
  /\ pc[p] = "r_lock"
  /\ mutex = NULL
  /\ mutex' = p
  /\ Goto(p, "r_update")
  /\ UNCHANGED <<envvars, config, dbvars, wvars, lock, stale, locals, now, hist, marks>>

\* db.rs:205-213: pool.begin(), then UPDATE .. SET status = 'completed'.
SetRoundUpdate(p) ==
  /\ pc[p] = "r_update"
  /\ PoolFree /\ CanWrite(p)
  /\ lock' = [lock EXCEPT ![p] = "reserved"]
  /\ wrounds' = CompleteActive(giveaway_rounds)
  /\ Goto(p, "r_insert")
  /\ UNCHANGED <<sysvars, dbvars, wkeys, wusers, stale, locals, now, hist, marks>>

\* db.rs:205-213: begin or the UPDATE timed out: Err; commands.rs:163 returns
\* it with `?`, which drops the config guard.
SetRoundUpdateBusy(p) ==
  /\ pc[p] = "r_update"
  /\ ~(PoolFree /\ CanWrite(p))
  /\ Return(p, "storage", NULL)
  /\ mutex' = NULL
  /\ UNCHANGED <<envvars, config, dbvars, wvars, lock, stale, cmd, user, now, hist, marks>>

\* db.rs:215-222: INSERT OR REPLACE INTO giveaway_rounds .. 'active'.
SetRoundInsert(p) ==
  /\ pc[p] = "r_insert"
  /\ wrounds' = ReplaceRound(wrounds, round[p])
  /\ Goto(p, "r_commit")
  /\ UNCHANGED <<sysvars, dbvars, wkeys, wusers, lock, stale, locals, now, hist, marks>>

\* SetRoundCommitted without the config.insert.
SetRoundCommittedNoCache(p) ==
  /\ got' = GotAfter(wrounds)
  /\ rolled' = RolledAfter(wrounds)
  /\ pre' = PreAfter(wrounds)
  /\ fresh' = [u \in DOMAIN fresh |-> TRUE]
  /\ Commit(p)
  /\ UNCHANGED config
  /\ Goto(p, "r_say")
  /\ UNCHANGED <<mutex, key, round, result, returned>>

\* db.rs:224-225: the commit went through: config.insert("claim_round", round).
SetRoundCommitted(p) ==
  /\ got' = GotAfter(wrounds)
  /\ rolled' = RolledAfter(wrounds)
  /\ pre' = PreAfter(wrounds)
  /\ fresh' = [u \in DOMAIN fresh |-> TRUE]
  /\ Commit(p)
  /\ config' = [config EXCEPT !.claim_round = round[p]]
  /\ Goto(p, "r_say")
  /\ UNCHANGED <<mutex, key, round, result, returned>>

\* SetRoundCommitFailed after a set_round_db that writes the cache before it
\* commits.
SetRoundCommitFailedCached(p) ==
  /\ Rollback(p)
  /\ Return(p, "CommitFailed", NULL)
  /\ mutex' = NULL
  /\ config' = [config EXCEPT !.claim_round = round[p]]
  /\ UNCHANGED <<hist, marks>>

\* db.rs:226-228: the commit failed: Err("Failed to commit transaction");
\* commands.rs:163 returns it with `?`, which drops the config guard.
SetRoundCommitFailed(p) ==
  /\ Rollback(p)
  /\ Return(p, "CommitFailed", NULL)
  /\ mutex' = NULL
  /\ UNCHANGED <<config, hist, marks>>

\* db.rs:224: transaction.commit().await
SetRoundCommit(p) ==
  /\ pc[p] = "r_commit"
  /\ IF CanCommit(p)
     THEN SetRoundCommitted(p)
     ELSE /\ lock' = [lock EXCEPT ![p] = "pending"]
          /\ Goto(p, "r_wait")
          /\ UNCHANGED <<dbvars, wvars, stale, config, mutex, key, round, result, hist, marks>>
  /\ UNCHANGED <<envvars, cmd, user, now>>

\* db.rs:224-228: the COMMIT waits for the readers, or times out.
SetRoundWait(p) ==
  /\ pc[p] = "r_wait"
  /\ IF CanCommit(p) THEN SetRoundCommitted(p) ELSE SetRoundCommitFailed(p)
  /\ UNCHANGED <<envvars, cmd, user, now>>

\* commands.rs:165-168: ctx.say(..), Ok(()); the config guard is dropped.
SetRoundSay(p) ==
  /\ pc[p] = "r_say"
  /\ Return(p, "ok", NULL)
  /\ mutex' = NULL
  /\ UNCHANGED <<envvars, config, dbvars, wvars, lock, stale, cmd, user, now, hist, marks>>

\* ------------------------------------------- set_key_role, set_config_val

\* What every step of set_key_role and create_key_post leaves alone.
cmdframe == <<journal_mode, file, lines, booted, now, hist, marks>>

\* commands.rs:51-56: the set_key_role command with its role argument.
CallSetKeyRole(p, r) ==
  /\ booted /\ pc[p] = "idle"
  /\ Goto(p, "k_lock")
  /\ cmd' = [cmd EXCEPT ![p] = "set_key_role"]
  /\ role' = [role EXCEPT ![p] = r]
  /\ UNCHANGED <<cmdframe, config, config_tbl, was, mutex, dbvars, wvars, lock, stale,
                 user, key, round, result>>

\* commands.rs:57-59: config.lock().await, then d.insert("role_id", role.id).
SetKeyRoleLock(p) ==
  /\ pc[p] = "k_lock"
  /\ mutex = NULL
  /\ mutex' = p
  /\ was' = [was EXCEPT ![p] = config.role_id]
  /\ config' = [config EXCEPT !.role_id = role[p]]
  /\ Goto(p, "k_store")
  /\ UNCHANGED <<cmdframe, config_tbl, role, dbvars, wvars, lock, stale, locals>>

\* The call of set_key_role returns `res`; its guard is dropped.
ReturnKeyRole(p, res) ==
  /\ Return(p, res, NULL)
  /\ mutex' = NULL
  /\ role' = [role EXCEPT ![p] = NULL]
  /\ was' = [was EXCEPT ![p] = NULL]

\* commands.rs:61-62, db.rs:248-260: INSERT OR REPLACE INTO config, on the
\* pool (autocommit); then drop(d).
SetKeyRoleStore(p) ==
  /\ pc[p] = "k_store"
  /\ PoolFree /\ CanWrite(p)
  /\ IF CanCommit(p)
     THEN /\ config_tbl' = role[p]
          /\ AutoCommit(p, keys, giveaway_rounds, users)
          /\ mutex' = NULL
          /\ Goto(p, "k_say")
          /\ UNCHANGED lock
     ELSE /\ lock' = [lock EXCEPT ![p] = "pending"]
          /\ Goto(p, "k_wait")
          /\ UNCHANGED <<config_tbl, mutex, dbvars, wvars, stale>>
  /\ UNCHANGED <<cmdframe, config, role, was, locals>>

\* commands.rs:61: set_config_val(..).await? timed out: Err, returned with `?`.
SetKeyRoleStoreBusy(p) ==
  /\ pc[p] = "k_store"
  /\ ~(PoolFree /\ CanWrite(p))
  /\ ReturnKeyRole(p, "storage")
  /\ UNCHANGED <<cmdframe, config, config_tbl, dbvars, wvars, lock, stale, cmd, user>>

\* commands.rs:61: the INSERT holds PENDING and waits for the readers to
\* leave, or times out.
SetKeyRoleWait(p) ==
  /\ pc[p] = "k_wait"
  /\ IF CanCommit(p)
     THEN /\ config_tbl' = role[p]
          /\ Commit(p)
          /\ mutex' = NULL
          /\ Goto(p, "k_say")
          /\ UNCHANGED <<role, was, key, round, result>>
     ELSE /\ Rollback(p)
          /\ ReturnKeyRole(p, "storage")
          /\ UNCHANGED config_tbl
  /\ UNCHANGED <<cmdframe, config, cmd, user>>

\* commands.rs:64-66: ctx.say(..), Ok(()).
SetKeyRoleSay(p) ==
  /\ pc[p] = "k_say"
  /\ Return(p, "ok", NULL)
  /\ role' = [role EXCEPT ![p] = NULL]
  /\ was' = [was EXCEPT ![p] = NULL]
  /\ UNCHANGED <<cmdframe, config, config_tbl, mutex, dbvars, wvars, lock, stale,
                 cmd, user>>

\* -------------------------------------------------------- create_key_post

\* commands.rs:171-177: the create_key_post command.
CallPost(p) ==
  /\ booted /\ pc[p] = "idle"
  /\ Goto(p, "p_lock")
  /\ cmd' = [cmd EXCEPT ![p] = "post"]
  /\ UNCHANGED <<cmdframe, cfgvars, config, mutex, dbvars, wvars, lock, stale,
                 user, key, round, result>>

\* commands.rs:178-187: data_map = config.lock().await; data_map.get("role_id").
\* The guard data_map lives until the function returns.
PostLock(p) ==
  /\ pc[p] = "p_lock"
  /\ mutex = NULL
  /\ mutex' = p
  /\ Goto(p, IF config.role_id = NULL THEN "p_norole" ELSE "p_send")
  /\ UNCHANGED <<cmdframe, cfgvars, config, dbvars, wvars, lock, stale, locals>>

\* commands.rs:184-186: ctx.say("No role set, ..").await?; return Ok(()).
PostNoRole(p) ==
  /\ pc[p] = "p_norole"
  /\ Return(p, "NoRole", NULL)
  /\ mutex' = NULL
  /\ UNCHANGED <<cmdframe, cfgvars, config, dbvars, wvars, lock, stale, cmd, user>>

\* commands.rs:189-209: ctx.send(reply).await: the post with its button.
PostSend(p) ==
  /\ pc[p] = "p_send"
  /\ Goto(p, "p_collect")
  /\ UNCHANGED <<cmdframe, cfgvars, config, mutex, dbvars, wvars, lock, stale, locals>>

\* commands.rs:211-218: the collector times out: the loop is left.
PostEnd(p) ==
  /\ pc[p] = "p_collect"
  /\ Goto(p, "p_edit")
  /\ UNCHANGED <<cmdframe, cfgvars, config, mutex, dbvars, wvars, lock, stale, locals>>

\* commands.rs:290-298: res.edit(..).await?; Ok(()): data_map is dropped.
PostEdit(p) ==
  /\ pc[p] = "p_edit"
  /\ Return(p, "ok", NULL)
  /\ mutex' = NULL
  /\ UNCHANGED <<cmdframe, cfgvars, config, dbvars, wvars, lock, stale, cmd, user>>

\* commands.rs:221-245: a click of user u whose account is not older than
\* age_bound: has_role(..).await, then the direct message "Your account is too
\* new to claim a key" is sent.
PostTooNew(p, u) ==
  /\ pc[p] = "p_collect"
  /\ Goto(p, "p_young")
  /\ user' = [user EXCEPT ![p] = u]
  /\ UNCHANGED <<cmdframe, cfgvars, config, mutex, dbvars, wvars, lock, stale,
                 cmd, key, round, result>>

\* commands.rs:247-250: the interaction is acknowledged and `return Ok(())`
\* leaves the function: data_map is dropped, res.edit is not reached.
PostTooNewReturn(p) ==
  /\ pc[p] = "p_young"
  /\ Return(p, "ok", NULL)
  /\ mutex' = NULL
  /\ UNCHANGED <<cmdframe, cfgvars, config, dbvars, wvars, lock, stale, cmd, user>>

\* commands.rs:221-236, 275-283: a click of user u who has not the role: the
\* direct message "You do not have permission to claim a key" is sent.
PostNoPermission(p, u) ==
  /\ pc[p] = "p_collect"
  /\ Goto(p, "p_deny")
  /\ user' = [user EXCEPT ![p] = u]
  /\ UNCHANGED <<cmdframe, cfgvars, config, mutex, dbvars, wvars, lock, stale,
                 cmd, key, round, result>>

\* commands.rs:286-288: the interaction is acknowledged and the loop waits for
\* the next click.
PostDenied(p) ==
  /\ pc[p] = "p_deny"
  /\ Goto(p, "p_collect")
  /\ user' = [user EXCEPT ![p] = NULL]
  /\ UNCHANGED <<cmdframe, cfgvars, config, mutex, dbvars, wvars, lock, stale,
                 cmd, key, round, result>>

\* ---------------------------------------------------- read_beta_keys_file

syncframe == <<journal_mode, config, mutex, file, booted, locals, now, hist, marks,
               cfgvars>>

\* main.rs:229-232, db.rs:264-267: the timer ticks and the file is opened;
\* `lines` are the lines the reader has not returned yet.
SyncStart ==
  /\ booted /\ pc[SyncTask] = "idle"
  /\ Goto(SyncTask, "s_line")
  /\ lines' = file
  /\ UNCHANGED <<syncframe, dbvars, wvars, lock, stale>>

\* db.rs:269-278: the next line: INSERT OR IGNORE INTO keys, on the pool.
SyncLine ==
  /\ pc[SyncTask] = "s_line"
  /\ lines # <<>>
  /\ PoolFree /\ CanWrite(SyncTask)
  /\ IF CanCommit(SyncTask)
     THEN /\ AutoCommit(SyncTask, InsertKey(keys, Head(lines)), giveaway_rounds, users)
          /\ lines' = Tail(lines)
          /\ UNCHANGED <<lock, pc>>
     ELSE /\ wkeys' = InsertKey(keys, Head(lines))
          /\ lock' = [lock EXCEPT ![SyncTask] = "pending"]
          /\ Goto(SyncTask, "s_wait")
          /\ UNCHANGED <<dbvars, wrounds, wusers, stale, lines>>
  /\ UNCHANGED syncframe

\* db.rs:276-277: the INSERT timed out: `?` ends the run with Err, which
\* main.rs:232-234 prints.
SyncLineBusy ==
  /\ pc[SyncTask] = "s_line"
  /\ lines # <<>>
  /\ ~(PoolFree /\ CanWrite(SyncTask))
  /\ Goto(SyncTask, "idle")
  /\ lines' = <<>>
  /\ UNCHANGED <<syncframe, dbvars, wvars, lock, stale>>

\* db.rs:276-277: the INSERT holds PENDING and waits for the readers to leave.
SyncWait ==
  /\ pc[SyncTask] = "s_wait"
  /\ IF CanCommit(SyncTask)
     THEN /\ Commit(SyncTask)
          /\ Goto(SyncTask, "s_line")
          /\ lines' = Tail(lines)
     ELSE /\ Rollback(SyncTask)
          /\ Goto(SyncTask, "idle")
          /\ lines' = <<>>
  /\ UNCHANGED syncframe

\* db.rs:269,279-283: no line is left: Ok(()).
SyncEnd ==
  /\ pc[SyncTask] = "s_line"
  /\ lines = <<>>
  /\ Goto(SyncTask, "idle")
  /\ UNCHANGED <<syncframe, lines, dbvars, wvars, lock, stale>>

\* ------------------------------------------------------------ specification

Next ==
  \/ Boot
  \/ \E p \in Tasks, u \in Users : ClaimUser(p, u)
  \/ \E p \in Tasks, u \in Users : ClaimUserBusy(p, u)
  \/ \E p \in Tasks : ClaimUserWait(p)
  \/ \E p \in Tasks : ClaimSelect(p)
  \/ \E p \in Tasks : ClaimSelectBusy(p)
  \/ \E p \in Tasks : ClaimCount(p)
  \/ \E p \in Tasks : ClaimCountBusy(p)
  \/ \E p \in Tasks : ClaimUpdate(p)
  \/ \E p \in Tasks : ClaimCommit(p)
  \/ \E p \in Tasks : ClaimWait(p)
  \/ \E p \in Tasks, u \in Users : UncheckedUser(p, u)
  \/ \E p \in Tasks, u \in Users : UncheckedUserBusy(p, u)
  \/ \E p \in Tasks : UncheckedSelect(p)
  \/ \E p \in Tasks : UncheckedUpdate(p)
  \/ \E p \in Tasks : UncheckedCommit(p)
  \/ \E p \in Tasks : UncheckedWait(p)
  \/ \E p \in Tasks, n \in Rounds : CallSetRound(p, n)
  \/ \E p \in Tasks : SetRoundLock(p)
  \/ \E p \in Tasks : SetRoundUpdate(p)
  \/ \E p \in Tasks : SetRoundUpdateBusy(p)
  \/ \E p \in Tasks : SetRoundInsert(p)
  \/ \E p \in Tasks : SetRoundCommit(p)
  \/ \E p \in Tasks : SetRoundWait(p)
  \/ \E p \in Tasks : SetRoundSay(p)
  \/ \E p \in Tasks : Finish(p)
  \/ SyncStart
  \/ SyncLine
  \/ SyncLineBusy
  \/ SyncWait
  \/ SyncEnd

Spec == Init /\ [][Next]_vars

\* The stress scenario of the spec: the inventory holds the N keys of the file
\* (a sync run has ingested it), round 1 is active, and each of the MaxTasks
\* users, more than N, calls claim once, the calls running concurrently.
Ingested(f) ==
  [t \in Tokens |-> IF \E i \in 1..Len(f) : f[i] = t THEN NewRow ELSE NoRow]

StressInit ==
  /\ journal_mode \in {"delete", "wal"}
  /\ file \in {f \in Files : f # <<>> /\ SumN(Ingested(f), Tokens) < MaxTasks}
  /\ keys = Ingested(file)
  /\ giveaway_rounds = [r \in Rounds |-> IF r = 1 THEN "active" ELSE "none"]
  /\ users = {}
  /\ config = [claim_round |-> 1, role_id |-> NULL]
  /\ config_tbl = NULL
  /\ booted = TRUE
  /\ AtRest
  /\ fresh = Watched({})

\* Task p runs the one claim of user p, while the timer keeps running sync
\* over the file that is already ingested.
StressNext ==
  \/ \E p \in Tasks : ClaimUser(p, p)
  \/ \E p \in Tasks : ClaimUserBusy(p, p)
  \/ \E p \in Tasks : ClaimUserWait(p)
  \/ \E p \in Tasks : ClaimSelect(p)
  \/ \E p \in Tasks : ClaimSelectBusy(p)
  \/ \E p \in Tasks : ClaimCount(p)
  \/ \E p \in Tasks : ClaimCountBusy(p)
  \/ \E p \in Tasks : ClaimUpdate(p)
  \/ \E p \in Tasks : ClaimCommit(p)
  \/ \E p \in Tasks : ClaimWait(p)
  \/ SyncStart
  \/ SyncLine
  \/ SyncLineBusy
  \/ SyncWait
  \/ SyncEnd

StressSpec == StressInit /\ [][StressNext]_vars

\* Any start of the process: over a database just created, or over one an
\* earlier run left with its rounds; the startup round check may fail.
StartInit ==
  /\ journal_mode \in {"delete", "wal"}
  /\ file = <<1>>
  /\ keys = [t \in Tokens |-> NoRow]
  /\ giveaway_rounds \in
       {[r \in Rounds |-> "none"],
        [r \in Rounds |-> IF r = 1 THEN "active" ELSE "none"],
        [r \in Rounds |-> IF r = 1 THEN "completed"
                           ELSE IF r = 2 THEN "active" ELSE "none"]}
  /\ users = {}
  /\ config = [claim_round |-> NULL, role_id |-> NULL]
  /\ config_tbl = NULL
  /\ booted = FALSE
  /\ AtRest
  /\ fresh = Watched({})

StartNext == Next \/ BootRoundErr

StartSpec == StartInit /\ [][StartNext]_vars

\* The administration scenario: the bot runs with round 1 active, the file's
\* keys ingested and no role stored yet; the tasks run set_key_role,
\* create_key_post (whose button clicks claim), give_key and set_round while
\* the timer keeps running sync.
ConfigInit ==
  /\ journal_mode \in {"delete", "wal"}
  /\ file = <<1>>
  /\ keys = Ingested(file)
  /\ giveaway_rounds = [r \in Rounds |-> IF r = 1 THEN "active" ELSE "none"]
  /\ users = {}
  /\ config = [claim_round |-> 1, role_id |-> NULL]
  /\ config_tbl = NULL
  /\ booted = TRUE
  /\ AtRest
  /\ fresh = Watched({})

ConfigNext ==
  \/ \E p \in Tasks, r \in Roles : CallSetKeyRole(p, r)
  \/ \E p \in Tasks : SetKeyRoleLock(p)
  \/ \E p \in Tasks : SetKeyRoleStore(p)
  \/ \E p \in Tasks : SetKeyRoleStoreBusy(p)
  \/ \E p \in Tasks : SetKeyRoleWait(p)
  \/ \E p \in Tasks : SetKeyRoleSay(p)
  \/ \E p \in Tasks : CallPost(p)
  \/ \E p \in Tasks : PostLock(p)
  \/ \E p \in Tasks : PostNoRole(p)
  \/ \E p \in Tasks : PostSend(p)
  \/ \E p \in Tasks : PostEnd(p)
  \/ \E p \in Tasks : PostEdit(p)
  \/ \E p \in Tasks, u \in Users : ClaimUser(p, u)
  \/ \E p \in Tasks, u \in Users : ClaimUserBusy(p, u)
  \/ \E p \in Tasks : ClaimUserWait(p)
  \/ \E p \in Tasks : ClaimSelect(p)
  \/ \E p \in Tasks : ClaimSelectBusy(p)
  \/ \E p \in Tasks : ClaimCount(p)
  \/ \E p \in Tasks : ClaimCountBusy(p)
  \/ \E p \in Tasks : ClaimUpdate(p)
  \/ \E p \in Tasks : ClaimCommit(p)
  \/ \E p \in Tasks : ClaimWait(p)
  \/ \E p \in Tasks, n \in Rounds : CallSetRound(p, n)
  \/ \E p \in Tasks : SetRoundLock(p)
  \/ \E p \in Tasks : SetRoundUpdate(p)
  \/ \E p \in Tasks : SetRoundUpdateBusy(p)
  \/ \E p \in Tasks : SetRoundInsert(p)
  \/ \E p \in Tasks : SetRoundCommit(p)
  \/ \E p \in Tasks : SetRoundWait(p)
  \/ \E p \in Tasks : SetRoundSay(p)
  \/ \E p \in Tasks : Finish(p)
  \/ SyncStart
  \/ SyncLine
  \/ SyncLineBusy
  \/ SyncWait
  \/ SyncEnd

ConfigSpec == ConfigInit /\ [][ConfigNext]_vars

\* The round scenario: the bot runs with round 1 active and the two keys of the
\* file ingested; the tasks run the claim of give_key and set_round, for new
\* and for used round numbers, while the timer keeps running sync.
ReopenInit ==
  /\ journal_mode \in {"delete", "wal"}
  /\ file = <<1, 2>>
  /\ keys = Ingested(file)
  /\ giveaway_rounds = [r \in Rounds |-> IF r = 1 THEN "active" ELSE "none"]
  /\ users = {}
  /\ config = [claim_round |-> 1, role_id |-> NULL]
  /\ config_tbl = NULL
  /\ booted = TRUE
  /\ AtRest
  /\ fresh = Watched(Users)

ReopenNext ==
  \/ \E p \in Tasks, u \in Users : ClaimUser(p, u)
  \/ \E p \in Tasks, u \in Users : ClaimUserBusy(p, u)
  \/ \E p \in Tasks : ClaimUserWait(p)
  \/ \E p \in Tasks : ClaimSelect(p)
  \/ \E p \in Tasks : ClaimSelectBusy(p)
  \/ \E p \in Tasks : ClaimCount(p)
  \/ \E p \in Tasks : ClaimCountBusy(p)
  \/ \E p \in Tasks : ClaimUpdate(p)
  \/ \E p \in Tasks : ClaimCommit(p)
  \/ \E p \in Tasks : ClaimWait(p)
  \/ \E p \in Tasks, n \in Rounds : CallSetRound(p, n)
  \/ \E p \in Tasks : SetRoundLock(p)
  \/ \E p \in Tasks : SetRoundUpdate(p)
  \/ \E p \in Tasks : SetRoundUpdateBusy(p)
  \/ \E p \in Tasks : SetRoundInsert(p)
  \/ \E p \in Tasks : SetRoundCommit(p)
  \/ \E p \in Tasks : SetRoundWait(p)
  \/ \E p \in Tasks : SetRoundSay(p)
  \/ \E p \in Tasks : Finish(p)
  \/ SyncStart
  \/ SyncLine
  \/ SyncLineBusy
  \/ SyncWait
  \/ SyncEnd

ReopenSpec == ReopenInit /\ [][ReopenNext]_vars

\* The giveaway scenario: the bot runs with round 1 active, the file's key
\* ingested and a role stored; the tasks run create_key_post, whose button is
\* clicked by users of every kind (account too new, without the role,
\* eligible), give_key, set_round and set_key_role while the timer keeps
\* running sync.
GiveawayInit ==
  /\ journal_mode \in {"delete", "wal"}
  /\ file = <<1>>
  /\ keys = Ingested(file)
  /\ giveaway_rounds = [r \in Rounds |-> IF r = 1 THEN "active" ELSE "none"]
  /\ users = {}
  /\ config = [claim_round |-> 1, role_id |-> 1]
  /\ config_tbl = 1
  /\ booted = TRUE
  /\ AtRest
  /\ fresh = Watched({})

GiveawayNext ==
  \/ \E p \in Tasks : CallPost(p)
  \/ \E p \in Tasks : PostLock(p)
  \/ \E p \in Tasks : PostSend(p)
  \/ \E p \in Tasks, u \in Users : PostTooNew(p, u)
  \/ \E p \in Tasks : PostTooNewReturn(p)
  \/ \E p \in Tasks, u \in Users : PostNoPermission(p, u)
  \/ \E p \in Tasks : PostDenied(p)
  \/ \E p \in Tasks : PostEnd(p)
  \/ \E p \in Tasks : PostEdit(p)
  \/ \E p \in Tasks, u \in Users : ClaimUser(p, u)
  \/ \E p \in Tasks, u \in Users : ClaimUserBusy(p, u)
  \/ \E p \in Tasks : ClaimUserWait(p)
  \/ \E p \in Tasks : ClaimSelect(p)
  \/ \E p \in Tasks : ClaimSelectBusy(p)
  \/ \E p \in Tasks : ClaimCount(p)
  \/ \E p \in Tasks : ClaimCountBusy(p)
  \/ \E p \in Tasks : ClaimUpdate(p)
  \/ \E p \in Tasks : ClaimCommit(p)
  \/ \E p \in Tasks : ClaimWait(p)
  \/ \E p \in Tasks, r \in Roles : CallSetKeyRole(p, r)
  \/ \E p \in Tasks : SetKeyRoleLock(p)
  \/ \E p \in Tasks : SetKeyRoleStore(p)
  \/ \E p \in Tasks : SetKeyRoleStoreBusy(p)
  \/ \E p \in Tasks : SetKeyRoleWait(p)
  \/ \E p \in Tasks : SetKeyRoleSay(p)
  \/ \E p \in Tasks, n \in Rounds : CallSetRound(p, n)
  \/ \E p \in Tasks : SetRoundLock(p)
  \/ \E p \in Tasks : SetRoundUpdate(p)
  \/ \E p \in Tasks : SetRoundUpdateBusy(p)
  \/ \E p \in Tasks : SetRoundInsert(p)
  \/ \E p \in Tasks : SetRoundCommit(p)
  \/ \E p \in Tasks : SetRoundWait(p)
  \/ \E p \in Tasks : SetRoundSay(p)
  \/ \E p \in Tasks : Finish(p)
  \/ SyncStart
  \/ SyncLine
  \/ SyncLineBusy
  \/ SyncWait
  \/ SyncEnd

\* What the collector of task p's giveaway yields: a click of some user, or
\* its timeout when no click came.
Collected(p) ==
  /\ pc[p] = "p_collect"
  /\ \/ \E u \in Users : ClaimUser(p, u) \/ ClaimUserBusy(p, u)
     \/ \E u \in Users : PostTooNew(p, u) \/ PostNoPermission(p, u)
     \/ PostEnd(p)

\* The steps of task p that wait for nothing but the runtime, the store or
\* Discord: every await of a running command but the two below.
Resumed(p) ==
  \/ PostSend(p) \/ PostTooNewReturn(p) \/ PostDenied(p) \/ PostEdit(p)
  \/ ClaimUserWait(p) \/ ClaimSelect(p) \/ ClaimSelectBusy(p)
  \/ ClaimCount(p) \/ ClaimCountBusy(p) \/ ClaimUpdate(p)
  \/ ClaimCommit(p) \/ ClaimWait(p)
  \/ SetKeyRoleStore(p) \/ SetKeyRoleStoreBusy(p) \/ SetKeyRoleWait(p)
  \/ SetKeyRoleSay(p)
  \/ SetRoundUpdate(p) \/ SetRoundUpdateBusy(p) \/ SetRoundInsert(p)
  \/ SetRoundCommit(p) \/ SetRoundWait(p) \/ SetRoundSay(p)
  \/ Finish(p)

\* commands.rs:57, 161, 178: config.lock().await.
Locked(p) == PostLock(p) \/ SetKeyRoleLock(p) \/ SetRoundLock(p)

\* The scheduling: tokio runs every task that can go on; tokio's Mutex is
\* fair (waiters get the lock in the order they asked), so a waiter is served
\* when the lock is free again and again; a collector yields a click or its
\* timeout.  Nothing makes the clicks stop, and nothing makes commands start.
GiveawayFair ==
  \A p \in Tasks :
     /\ WF_vars(Resumed(p))
     /\ SF_vars(Locked(p))
     /\ WF_vars(Collected(p))

GiveawaySpec == GiveawayInit /\ [][GiveawayNext]_vars /\ GiveawayFair

\* ------------------------------------------------------------------- claims

\* C1. Uniqueness: in every interleaving of claim, claimUnchecked, sync and
\* openRound, no token is returned by two successful calls: every token has
\* been returned at most once.
C1_Uniqueness == \A t \in Tokens : returned[t] <= 1

\* Both tasks have returned successfully, one from claim and one from
\* claimUnchecked, with a key each.
C1_Witness ==
  /\ pc[1] = "done" /\ cmd[1] = "claim" /\ result[1] = "ok"
  /\ pc[2] = "done" /\ cmd[2] = "unchecked" /\ result[2] = "ok"
  /\ key[1] # NULL /\ key[2] # NULL

\* C2. Per-round exclusivity: while the active round stays the same, a user
\* never gets more than one token through claim, whether the claims follow
\* one another or run concurrently.
C2_PerRoundExclusivity == \A u \in Users : got[u] <= 1

\* Two claims of the same user ran concurrently: task 2 has selected a key
\* (so it read the inventory before task 1 committed) and task 1 has since
\* committed and returned its key.
C2_Witness ==
  /\ pc[1] = "done" /\ cmd[1] = "claim" /\ result[1] = "ok"
  /\ pc[2] = "c_update" /\ user[2] = user[1]

\* C3 as stated: a user who claimed in round R and calls claim again while R
\* is still active always gets "You have already claimed a key for this
\* round.", whatever the number of unclaimed tokens, including zero.
C3_AlwaysAlreadyClaimed ==
  \A p \in Tasks :
     (pc[p] = "done" /\ "again" \in pre[p]) => result[p] = "AlreadyClaimed"

\* C3 as amended: such a call never returns a token; it fails with
\* AlreadyClaimedThisRound when its count finds an unclaimed token, with
\* PoolExhausted ("No keys available") when the count finds none, or with a
\* storage error when a concurrent writer blocks one of its statements.
C3_RepeatClaimFails ==
  /\ [](\A p \in Tasks :
          (pc[p] = "done" /\ "again" \in pre[p])
             => result[p] \in {"AlreadyClaimed", "NoKeys", "storage"})
  /\ [][\A p \in Tasks :
          ("again" \in pre'[p] /\ pc[p] # "done" /\ pc'[p] = "done"
              /\ result'[p] # "storage")
             => /\ pc[p] = "c_count"
                /\ result'[p] = IF Cardinality(Unclaimed(keys)) > 0
                                THEN "AlreadyClaimed" ELSE "NoKeys"]_vars

\* A repeated claim in the same round has returned AlreadyClaimedThisRound.
C3_Witness ==
  \E p \in Tasks :
     pc[p] = "done" /\ "again" \in pre[p] /\ result[p] = "AlreadyClaimed"

\* C4 as stated: after a claim in round R and the opening of round R+1 the
\* user's next claim succeeds whenever at least one unclaimed token remains:
\* it does not return a failure while the inventory holds an unclaimed token.
C4_RolloverReclaim ==
  [][\A p \in Tasks :
       ("rollover" \in pre'[p] /\ pc[p] # "done" /\ pc'[p] = "done"
           /\ Unclaimed(keys) # {})
          => result'[p] = "ok"]_vars

\* C4 as amended: the round-R token does not block the user's next claim: its
\* selection finds a token whenever one is unclaimed, unless the user already
\* holds a token bound to round number R+1; a token it returns was unclaimed
\* until then, so it is not the round-R token; it fails with PoolExhausted only
\* when its count finds no unclaimed token.  (Its bind or commit can still
\* fail with a storage error.)
C4_RolloverNotBlocked ==
  [][\A p \in Tasks :
       "rollover" \in pre'[p] =>
          /\ (pc[p] = "c_select" /\ pc'[p] = "c_count")
                => \/ Unclaimed(keys) = {}
                   \/ HasActiveClaim(keys, giveaway_rounds, users, user[p])
          /\ (pc[p] # "done" /\ pc'[p] = "done" /\ result'[p] = "ok")
                => /\ ~keys[key[p]].claimed
                   /\ keys'[key[p]].claimed
                   /\ key'[p] = key[p]
          /\ (pc[p] # "done" /\ pc'[p] = "done" /\ result'[p] = "NoKeys")
                => Unclaimed(keys) = {}]_vars

\* The next claim after the rollover has returned a token.
C4_Witness ==
  \E p \in Tasks : pc[p] = "done" /\ "rollover" \in pre[p] /\ result[p] = "ok"

\* C5. Active-round invariant: the committed rounds relation has no active
\* row before set_round_db was ever called and exactly one afterwards, never
\* two or more.
C5_OneActiveRound ==
  Cardinality(ActiveRounds(giveaway_rounds)) = IF booted THEN 1 ELSE 0

\* Two set_round commands overlap: one has committed round 2 over round 1
\* and is answering, the other waits for the config mutex.
C5_Witness ==
  /\ giveaway_rounds[1] = "completed" /\ giveaway_rounds[2] = "active"
  /\ \E p, q \in Tasks : pc[p] = "r_say" /\ pc[q] = "r_lock"

\* The inventory holds every line of the file: its contents after a run of
\* sync that read this file to its end.
FileIngested == \A i \in 1..Len(file) : keys[file[i]].n > 0

\* A step of the sync task.
SyncStep == pc'[SyncTask] # pc[SyncTask] \/ lines' # lines

\* C6. Idempotent ingestion: a run of sync ends Ok only with every line of
\* the list in the inventory, and a run of the same list after that leaves
\* the inventory as it is: no step of it changes a row or the number of
\* rows, and no token value is ever in two rows.
C6_IdempotentSync ==
  /\ [](\A t \in Tokens : keys[t].n <= 1)
  /\ [][(pc[SyncTask] = "s_line" /\ lines = <<>> /\ pc'[SyncTask] = "idle")
          => FileIngested]_vars
  /\ [][(FileIngested /\ SyncStep)
          => keys' = keys /\ SumN(keys', Tokens) = SumN(keys, Tokens)]_vars

\* A second run is under way: the key of the file's last line is in the
\* inventory, so an earlier run read the file to its end, and this run has
\* passed the first line.
C6_Witness ==
  /\ file = <<1, 2>> /\ keys[2].n = 1
  /\ pc[SyncTask] = "s_line" /\ lines = <<2>>

\* C7. Claim permanence: a committed claimed row never changes again: its
\* claimed flag, user, timestamp and round stay, whatever claim,
\* claimUnchecked, sync or openRound do later.
C7_ClaimPermanence ==
  [][\A t \in Tokens : keys[t].claimed => keys'[t] = keys[t]]_vars

\* Both keys are claimed and bound to different rounds: after the first was
\* claimed, a set_round and a second claim went through.
C7_Witness ==
  /\ keys[1].claimed /\ keys[2].claimed
  /\ keys[1].claim_round # keys[2].claim_round

\* Every call of the stress scenario has returned.
AllReturned == \A p \in Tasks : pc[p] = "done"
Succeeded == {p \in Tasks : result[p] = "ok"}

\* C8 as stated: of M > N concurrent claims of distinct users against N
\* unclaimed tokens exactly N succeed, every other call fails with
\* PoolExhausted, and no token is left unclaimed.
C8_StressExact ==
  AllReturned =>
     /\ Cardinality(Succeeded) = SumN(Ingested(file), Tokens)
     /\ \A p \in Tasks \ Succeeded : result[p] = "NoKeys"
     /\ Unclaimed(keys) = {}

\* C8 as amended: the calls that succeed return distinct tokens, as many as
\* tokens are claimed (at most N); every other call fails with PoolExhausted
\* or with a storage error (a concurrent writer held the database); a call
\* fails with PoolExhausted only when no token is left unclaimed.
C8_StressOutcome ==
  AllReturned =>
     /\ Cardinality(Succeeded) + Cardinality(Unclaimed(keys))
           = SumN(Ingested(file), Tokens)
     /\ \A p, q \in Succeeded : p # q => key[p] # key[q]
     /\ \A p \in Succeeded : keys[key[p]].claimed /\ keys[key[p]].user_claim = p
     /\ \A p \in Tasks \ Succeeded : result[p] \in {"NoKeys", "storage"}
     /\ (\E p \in Tasks : result[p] = "NoKeys") => Unclaimed(keys) = {}

\* All calls have returned: one with a token, another with PoolExhausted.
C8_Witness ==
  /\ AllReturned
  /\ \E p, q \in Tasks : result[p] = "ok" /\ result[q] = "NoKeys"

\* C9. Failure discrimination: whenever a claim returns "You have already
\* claimed a key for this round.", the user holds a claimed token bound to
\* the round that is active, and a token is unclaimed.
C9_FailureDiscrimination ==
  [][\A p \in Tasks :
       (pc[p] = "c_count" /\ pc'[p] = "done" /\ result'[p] = "AlreadyClaimed")
          => /\ HasActiveClaim(keys, giveaway_rounds, users, user[p])
             /\ Unclaimed(keys) # {}]_vars

\* C10. openRound is all-or-nothing: a step changes the committed rounds or
\* the cached claim_round only as the whole of a set_round_db that succeeds
\* (every active round completed, round N active, the cache set to N, by the
\* holder of the config mutex or by the startup); a set_round that returns
\* an error has changed neither.
C10_OpenRoundAtomic ==
  [][/\ (giveaway_rounds' # giveaway_rounds \/ config' # config)
          => \/ /\ ~booted /\ booted'
                /\ giveaway_rounds' = ReplaceRound(CompleteActive(giveaway_rounds), 1)
                /\ config'.claim_round = 1
             \/ \E p \in Tasks :
                   /\ mutex = p /\ pc[p] \in {"r_commit", "r_wait"} /\ pc'[p] = "r_say"
                   /\ giveaway_rounds' = ReplaceRound(CompleteActive(giveaway_rounds), round[p])
                   /\ config'.claim_round = round[p]
     /\ \A p \in Tasks :
          (pc[p] \in {"r_commit", "r_wait"} /\ pc'[p] = "r_say")
             => /\ giveaway_rounds' = ReplaceRound(CompleteActive(giveaway_rounds), round[p])
                /\ config'.claim_round = round[p]
     /\ \A p \in Tasks :
          (cmd[p] = "set_round" /\ pc[p] # "done" /\ pc'[p] = "done"
             /\ result'[p] # "ok")
             => giveaway_rounds' = giveaway_rounds /\ config' = config]_vars

\* A set_round has failed at its commit (the readers did not leave in time)
\* while round 1 was active and its argument was not yet cached.
C10_Witness ==
  \E p \in Tasks :
     /\ pc[p] = "done" /\ cmd[p] = "set_round" /\ result[p] = "CommitFailed"
     /\ giveaway_rounds[1] = "active" /\ config.claim_round = 1

\* C11 as stated: give_key_unchecked succeeds whenever an unclaimed token
\* exists: it returns no failure while the inventory holds an unclaimed token.
C11_UncheckedSucceeds ==
  [][\A p \in Tasks :
       (cmd'[p] = "unchecked" /\ pc[p] # "done" /\ pc'[p] = "done"
           /\ Unclaimed(keys) # {})
          => result'[p] = "ok"]_vars

\* C11 as amended: the selection of give_key_unchecked finds a token whenever
\* one is unclaimed, whatever the user holds; when it returns a token, that
\* token was unclaimed and now records the user and the active round; when
\* none is unclaimed it fails (RowNotFound); a call that fails, by that or by
\* a storage error (the database was busy at begin or at commit), changes no
\* token and no user row.
C11_UncheckedGrant ==
  [][\A p \in Tasks :
       cmd'[p] = "unchecked" /\ pc'[p] # pc[p] =>
          /\ pc[p] = "g_select" =>
                IF Unclaimed(keys) # {}
                THEN pc'[p] = "g_update" /\ key'[p] \in Unclaimed(keys)
                ELSE pc'[p] = "done" /\ result'[p] = "RowNotFound"
          /\ (pc'[p] = "done" /\ result'[p] = "ok") =>
                /\ key'[p] \in Unclaimed(keys)
                /\ keys'[key'[p]].claimed
                /\ keys'[key'[p]].user_claim = user[p]
                /\ keys'[key'[p]].claim_round = ActiveRoundId(giveaway_rounds')
                /\ keys'[key'[p]].claim_round # NULL
          /\ ~(pc'[p] = "done" /\ result'[p] = "ok") =>
                keys' = keys /\ users' = users]_vars

\* give_key_unchecked has returned a second token to a user who already held
\* one of the active round.
C11_Witness ==
  \E p \in Tasks :
     /\ pc[p] = "done" /\ cmd[p] = "unchecked" /\ result[p] = "ok"
     /\ \E t \in Tokens \ {key[p]} :
           /\ keys[t].claimed /\ keys[t].user_claim = user[p]
           /\ keys[t].claim_round = keys[key[p]].claim_round
           /\ giveaway_rounds[keys[t].claim_round] = "active"

\* C12. set_key_role is write-through with the store first: the cached
\* role_id takes a value only when the config table already holds it, and
\* when set_config_val fails the cache holds the value it had before the call.
C12_StoreFirst ==
  [][/\ config'.role_id # config.role_id => config_tbl = config'.role_id
     /\ \A p \in Tasks :
          (cmd[p] = "set_key_role" /\ pc[p] # "done" /\ pc'[p] = "done"
              /\ result'[p] = "storage")
             => config'.role_id = was[p]]_vars

\* C13. A claim or give_key_unchecked that fails leaves every token as it
\* was: a step of such a call changes the committed keys only when it is the
\* commit that returns the token; and no committed row is half-bound: a row
\* is either unclaimed with no user, timestamp and round, or claimed with its
\* user and timestamp set.
C13_FailedCallFrame ==
  /\ [](\A t \in Tokens :
          keys[t].n > 0 =>
             \/ keys[t] = NewRow
             \/ keys[t].claimed /\ keys[t].user_claim # NULL /\ keys[t].claimed_at # NULL)
  /\ [][\A p \in Tasks :
          (cmd'[p] \in {"claim", "unchecked"} /\ pc'[p] # pc[p] /\ keys' # keys)
             => pc'[p] = "done" /\ result'[p] = "ok"]_vars

\* A claim has failed with AlreadyClaimedThisRound and a give_key_unchecked
\* with a storage error, while a token is still unclaimed.
C13_Witness ==
  \E p, q \in Tasks :
     /\ pc[p] = "done" /\ cmd[p] = "claim" /\ result[p] = "AlreadyClaimed"
     /\ pc[q] = "done" /\ cmd[q] = "unchecked" /\ result[q] = "storage"
     /\ Unclaimed(keys) # {}

\* C14. In every committed state a token is claimed if and only if its
\* claiming user and its claim round are set, also for claims made after a
\* startup whose round check failed.
C14_ClaimedIffBound ==
  \A t \in Tokens :
     keys[t].n > 0 =>
        (keys[t].claimed <=> (keys[t].user_claim # NULL /\ keys[t].claim_round # NULL))

\* C15. The bot check comes before the claim: no step of a give_key command
\* applied to a bot user marks a token as claimed or takes a token out of the
\* unclaimed pool.
C15_BotNeverClaims ==
  [][\A p \in Tasks :
       (cmd'[p] = "claim" /\ user'[p] \in Bots /\ pc'[p] # pc[p])
          => /\ Unclaimed(keys') = Unclaimed(keys)
             /\ \A t \in Tokens : keys'[t].claimed = keys[t].claimed]_vars

\* Where a task waits for the store (a statement or a commit), for Discord (a
\* message sent or edited) or for a click on the giveaway button.
StoragePcs == {"k_store", "k_wait", "r_update", "r_insert", "r_commit", "r_wait",
               "u_wait", "c_select", "c_count", "c_update", "c_commit", "c_wait"}
NetworkPcs == {"r_say", "p_norole", "p_send", "p_edit", "done"}
InteractionPcs == {"p_collect"}

\* C16. The config mutex is held only while the map is read or written: its
\* holder is never waiting for a storage statement, for a network call or for
\* a user's click (set_key_role, set_round, create_key_post).
C16_MutexOnlyForMap ==
  \A p \in Tasks :
     mutex = p => pc[p] \notin (StoragePcs \cup NetworkPcs \cup InteractionPcs)

\* C17. After every successful set_round_db(N), by a set_round command or by
\* the startup, the cached claim_round is N; and whenever no set_round_db is
\* running, a cached claim_round that is present is the number of the one
\* round that is active in the store.
C17_CachedRound ==
  /\ [][/\ \A p \in Tasks :
             (pc[p] \in {"r_commit", "r_wait"} /\ pc'[p] = "r_say")
                => /\ config'.claim_round = round[p]
                   /\ giveaway_rounds'[round[p]] = "active"
        /\ (~booted /\ booted' /\ giveaway_rounds' # giveaway_rounds)
             => config'.claim_round = 1 /\ giveaway_rounds'[1] = "active"]_vars
  /\ []((config.claim_round # NULL
            /\ \A p \in Tasks : pc[p] \notin {"r_update", "r_insert", "r_commit", "r_wait"})
          => ActiveRounds(giveaway_rounds) = {config.claim_round})

\* Round 1 was active (opened at startup, or left by an earlier run) and a
\* set_round(2) has since succeeded: the cache holds 2.
C17_Witness ==
  /\ config.claim_round = 2
  /\ giveaway_rounds[1] = "completed" /\ giveaway_rounds[2] = "active"
  /\ \E p \in Tasks : pc[p] = "done" /\ cmd[p] = "set_round" /\ result[p] = "ok"

\* db.rs:269-278: the inventory an uninterrupted run over the lines f leaves.
RECURSIVE SyncAll(_, _)
SyncAll(K, f) == IF f = <<>> THEN K ELSE SyncAll(InsertKey(K, Head(f)), Tail(f))

\* The lines f in every order.
Reorders(f) ==
  {[i \in 1..Len(f) |-> f[pi[i]]] : pi \in Permutations(1..Len(f))}

\* C18. sync only adds tokens: a step of sync leaves every row as it is or
\* adds one unclaimed row for a key of the file (no row is deleted, no claim
\* reset or altered, also between the steps of claims); a run that ends has
\* left what an uninterrupted run over the file leaves; and that inventory is
\* the same for every order of the file's lines.
C18_SyncOnlyAdds ==
  /\ [][SyncStep =>
          \A t \in Tokens :
             \/ keys'[t] = keys[t]
             \/ /\ keys[t].n = 0 /\ keys'[t] = NewRow
                /\ \E i \in 1..Len(file) : file[i] = t]_vars
  /\ [][(pc[SyncTask] = "s_line" /\ lines = <<>> /\ pc'[SyncTask] = "idle")
          => keys = SyncAll(keys, file)]_vars
  /\ [](\A g \in Reorders(file) : SyncAll(keys, g) = SyncAll(keys, file))

\* sync has added key 2 to an inventory in which key 1 is claimed, and its
\* run has read the file to the end.
C18_Witness ==
  /\ file = <<1, 2>>
  /\ keys[1].claimed /\ keys[2] = NewRow /\ now = 2
  /\ pc[SyncTask] = "s_line" /\ lines = <<>>

\* C19. Startup round bootstrap: the startup opens round 1 as the single
\* active round when the store has none and leaves the rounds alone when one
\* is active; hence every claim that is served runs with exactly one active
\* round.
C19_StartupRound ==
  /\ [][(~booted /\ booted') =>
          IF ActiveRounds(giveaway_rounds) = {}
          THEN ActiveRounds(giveaway_rounds') = {1}
          ELSE giveaway_rounds' = giveaway_rounds]_vars
  /\ [](\A p \in Tasks :
          cmd[p] \in {"claim", "unchecked"}
             => Cardinality(ActiveRounds(giveaway_rounds)) = 1)

\* C20 as stated: after a set_round that committed, for a round number that
\* is new or was used before, the next claim of a user who has not called
\* claim since then succeeds whenever an unclaimed token exists: while the
\* inventory holds an unclaimed token it returns a token, or at worst the
\* error of a storage statement, and never one of the two refusals.
C20_FreshAllowance ==
  [][\A p \in Tasks :
       ("fresh" \in pre'[p] /\ pc[p] # "done" /\ pc'[p] = "done"
           /\ Unclaimed(keys) # {})
          => result'[p] \in {"ok", "storage"}]_vars

\* C20 as amended: a set_round that commits leaves its number N as the one
\* active round, also when N was used before.  The selection of the next
\* claim of a user who has not called claim since then finds a token whenever
\* one is unclaimed, unless the user holds a claimed token whose claim_round
\* is N: a token bound during an earlier use of the number N blocks the user
\* as one bound in this round does.  A token the claim returns was unclaimed
\* until then, and it fails with PoolExhausted only when its count finds no
\* unclaimed token.  (Its statements can still fail with a storage error.)
C20_ReopenedRound ==
  /\ [][\A p \in Tasks :
          (pc[p] \in {"r_commit", "r_wait"} /\ pc'[p] = "r_say")
             => ActiveRounds(giveaway_rounds') = {round[p]}]_vars
  /\ [][\A p \in Tasks :
          "fresh" \in pre'[p] =>
             LET held == \E t \in Tokens :
                            /\ keys[t].n > 0 /\ keys[t].claimed
                            /\ keys[t].user_claim = user[p]
                            /\ keys[t].claim_round \in ActiveRounds(giveaway_rounds)
             IN /\ (pc[p] = "c_select" /\ pc'[p] = "c_count")
                      => (held \/ Unclaimed(keys) = {})
                /\ (pc[p] = "c_select" /\ pc'[p] = "c_update")
                      => (~held /\ key'[p] \in Unclaimed(keys))
                /\ (pc[p] # "done" /\ pc'[p] = "done" /\ result'[p] = "ok")
                      => /\ ~keys[key[p]].claimed
                         /\ keys'[key[p]].claimed
                         /\ key'[p] = key[p]
                /\ (pc[p] # "done" /\ pc'[p] = "done" /\ result'[p] = "NoKeys")
                      => Unclaimed(keys) = {}]_vars

\* Round number 1 was opened again after round 2, and the next claim of a user
\* who got no token since was turned down with AlreadyClaimedThisRound because
\* of a token bound to round number 1.
C20_Witness ==
  /\ giveaway_rounds[1] = "active" /\ giveaway_rounds[2] = "completed"
  /\ \E p \in Tasks :
        /\ pc[p] = "done" /\ "fresh" \in pre[p] /\ result[p] = "AlreadyClaimed"
        /\ got[user[p]] = 0
        /\ \E t \in Tokens :
              /\ keys[t].claimed /\ keys[t].user_claim = user[p]
              /\ keys[t].claim_round = 1

\* db.rs:113-121, db.rs:147-155: user u holds a claimed key whose claim_round
\* is an active round of R.
HoldsInActive(K, R, u) ==
  \E t \in Tokens :
     /\ K[t].n > 0 /\ K[t].claimed /\ K[t].user_claim = u
     /\ K[t].claim_round \in ActiveRounds(R)

\* C21. A token granted with give_key_unchecked counts toward the user's
\* allowance of the round: the grant leaves the user holding a token of the
\* active round, the user goes on holding one for as long as that round stays
\* the active one, and every claim of a user holding one that reaches its
\* selection selects nothing and returns a failure and no token; the selection
\* of give_key_unchecked still takes a token for such a user whenever one is
\* unclaimed.
C21_UncheckedCounts ==
  /\ [][\A p \in Tasks :
          (cmd[p] = "unchecked" /\ pc[p] # "done" /\ pc'[p] = "done"
              /\ result'[p] = "ok")
             => /\ keys'[key'[p]].user_claim = user[p]
                /\ keys'[key'[p]].claim_round \in ActiveRounds(giveaway_rounds')
                /\ HoldsInActive(keys', giveaway_rounds', user[p])]_vars
  /\ [][\A u \in Users :
          (HoldsInActive(keys, giveaway_rounds, u)
              /\ ActiveRounds(giveaway_rounds') = ActiveRounds(giveaway_rounds))
             => HoldsInActive(keys', giveaway_rounds', u)]_vars
  /\ [][\A p \in Tasks :
          (cmd[p] = "claim" /\ pc[p] = "c_select" /\ pc'[p] # "c_select"
              /\ HoldsInActive(keys, giveaway_rounds, user[p]))
             => \/ pc'[p] = "c_count" /\ key'[p] = key[p]
                \/ pc'[p] = "done" /\ result'[p] = "storage" /\ key'[p] = NULL]_vars
  /\ [][\A p \in Tasks :
          (pc[p] = "c_count" /\ pc'[p] # "c_count")
             => /\ pc'[p] = "done" /\ key'[p] = NULL
                /\ result'[p] \in {"AlreadyClaimed", "NoKeys", "storage"}
                /\ keys' = keys]_vars
  /\ [][\A p \in Tasks :
          (cmd[p] = "unchecked" /\ pc[p] = "g_select" /\ pc'[p] # "g_select"
              /\ HoldsInActive(keys, giveaway_rounds, user[p])
              /\ Unclaimed(keys) # {})
             => pc'[p] = "g_update" /\ key'[p] \in Unclaimed(keys)]_vars

\* Only round 1 was ever opened, the user got no token through claim and holds
\* a token of round 1 (so give_key_unchecked bound it), and the user's claim
\* has returned AlreadyClaimedThisRound.  In a rollback journal nothing commits
\* between the SELECT of a claim and its count (the claim holds a read lock),
\* so the SELECT met an unclaimed token and the user's token.
C21_Witness ==
  /\ journal_mode = "delete"
  /\ giveaway_rounds[1] = "active"
  /\ \A r \in Rounds \ {1} : giveaway_rounds[r] = "none"
  /\ \E p \in Tasks :
        /\ pc[p] = "done" /\ cmd[p] = "claim" /\ result[p] = "AlreadyClaimed"
        /\ got[user[p]] = 0
        /\ HoldsInActive(keys, giveaway_rounds, user[p])
        /\ Unclaimed(keys) # {}

\* C22. Administrative config commands make progress during a giveaway: a
\* set_round or set_key_role that asks for the config mutex while a
\* create_key_post giveaway is collecting clicks eventually completes, also
\* when clicks keep arriving and the giveaway therefore never ends.
C22_AdminProgress ==
  \A p \in Tasks :
     (pc[p] \in {"r_lock", "k_lock"} /\ \E q \in Tasks : pc[q] = "p_collect")
        ~> (pc[p] = "done")

\* C23. One user's ineligibility does not end a giveaway for others: after a
\* click of a user who is turned down (account too new, or without the role)
\* was answered, the giveaway collects clicks again, with its config guard
\* held as before, so that a later click of an eligible user is processed.
C23_RejectionKeepsGiveaway ==
  [][\A p \in Tasks :
       (pc[p] \in {"p_young", "p_deny"} /\ pc'[p] # pc[p])
          => pc'[p] = "p_collect" /\ mutex' = p]_vars

====
